---------------------------- MODULE Spec2Model ----------------------------
(***************************************************************************)
(* Model of the log forwarder (src/log_forwarder.py): the ingest loop that *)
(* tails a log file and assembles multi-line events into batches, the      *)
(* bounded outbound queue send_q with its drop-oldest push, and the Sender *)
(* thread that delivers batches over HTTP with retry, backoff and requeue. *)
(* The earlier variant src/forwarder.py, which posts each batch from the   *)
(* reading loop, is modelled next to it.                                   *)
(*                                                                         *)
(* Durations are integers in milliseconds, points in time pairs of epoch   *)
(* seconds and milliseconds; a string is the sequence of its characters.   *)
(* A batch is the list of its events                                       *)
(* together with a history tag "id" (the order in which flush_batch made   *)
(* it) and "requeues" (how often the Sender put it back); the tags are not *)
(* read by any modelled code path.  "list" names the list object a batch   *)
(* is: the list main() appends to and clears, or a copy that no code       *)
(* writes to once it is made.                                              *)
(***************************************************************************)
EXTENDS Integers, Sequences, FiniteSets, TLC

(***************************************************************************)
(* Configuration (module level constants of log_forwarder.py, lines 30-40) *)
(***************************************************************************)
LOG_QUEUE_MAX_BATCHES == 2
BATCH_MAX_LINES == 2
BACKOFF_INITIAL_MS == 500
BACKOFF_MAX_MS == 10000
HTTP_TIMEOUT_MS == 5000
DROP_AFTER_MS == 60000

(***************************************************************************)
(* Bounds of the exploration                                               *)
(***************************************************************************)
MaxBatches == 4        \* batches the ingest side creates in one run
MaxRequeues == 2       \* exhausted retry windows the endpoint inflicts on one batch
MaxPushes == 8         \* batches pushed in the runs without the Sender
SlowPostMs == 30000    \* duration of a slow requests.post in the coarse-time runs
MaxLines == 2          \* lines the writer appends in one run
MaxCuts == 1           \* truncations and rotations in one run
SmallBudget == 30      \* MAX_EVENT_BYTES in the runs that reach the truncation

Threads == {"ingest", "sender"}
MainList == 0          \* the list object main() keeps in batch (line 226)
NoBatch == [id |-> 0, events |-> <<>>, requeues |-> 0, list |-> -1]

VARIABLES
    send_q,       \* queue.Queue(maxsize=LOG_QUEUE_MAX_BATCHES): its deque, head first
    unfinished,   \* send_q.unfinished_tasks
    pc,           \* where each thread stands
    enq,          \* the argument of each thread's running enqueue_drop_oldest call
    batch,        \* main(): the in-progress batch
    sinceFlush,   \* main(): time.time() - last_flush, capped at FLUSH_INTERVAL_MS
    sbatch,       \* sender_loop(): the batch popped
    backoff,      \* send_with_retry(): backoff, in ms
    elapsed,      \* send_with_retry(): time.time() - (deadline - DROP_AFTER_S), in ms
    attempts,     \* history: requests.post calls of the running send_with_retry
    fails,        \* history: retryable outcomes of the running send_with_retry
    lastStatus,   \* history: status of the last response (0: exception, -1: none yet)
    sleeps,       \* history: the backoff of each sleep of the running send_with_retry
    nextId,       \* history: tag of the next batch
    delivered,    \* history: ids answered 2xx
    rejected,     \* history: ids answered 4xx other than 429
    evicted,      \* history: ids dropped by a full-queue push
    cfg,          \* the environment's settings: START_AT_END, MAX_EVENT_BYTES
    disk,         \* the file system: the lines of each inode
    pathIno,      \* the inode LOG_PATH names
    f,            \* main(): the open file, [ino, pos (a byte offset)]
    current_offset, \* main(): current_offset
    inode,        \* main(): inode
    pending,      \* main(): pending, <<>> for None and <<p>> for the dict p
    written,      \* history: lines the writer appended
    cuts,         \* history: truncations and rotations
    fed,          \* history: the lines read, as the assembler got them
    finalized,    \* history: the events finalize_pending returned, in order
    forced,       \* history: which of them a reopen finalized (indices)
    fedAtReopen,  \* history: Len(fed) at the last reopen
    lastStep,     \* history: what the last step of main() was
    pendingFrom,  \* history: index in fed of the first line of pending
    pushing,      \* history: the running enqueue_drop_oldest call of main(): its
                  \* evictions, and whether the Sender left the queue alone
    received,     \* history: the events the endpoint answered 2xx to, in order
    args,         \* the arguments of a function called on its own
    ret           \* and what it returned

queueVars  == <<send_q, unfinished>>
ingestVars == <<batch, sinceFlush>>
senderVars == <<sbatch, backoff, elapsed, attempts, fails, lastStatus, sleeps>>
ghostVars  == <<delivered, rejected, evicted>>
fileVars   == <<cfg, disk, pathIno, written, cuts>>
tailVars   == <<f, current_offset, inode, pending>>
histVars   == <<fed, finalized, forced, fedAtReopen, lastStep, pendingFrom>>
sideVars   == <<received, args, ret>>
vars == <<send_q, unfinished, pc, enq, batch, sinceFlush, sbatch, backoff, elapsed,
          attempts, fails, lastStatus, sleeps, nextId, delivered, rejected, evicted,
          cfg, disk, pathIno, f, current_offset, inode, pending, written, cuts,
          fed, finalized, forced, fedAtReopen, lastStep, pendingFrom,
         pushing, received, args, ret>>

Min(a, b) == IF a <= b THEN a ELSE b
Max(a, b) == IF a >= b THEN a ELSE b

Ids(q) == [i \in 1..Len(q) |-> q[i].id]

(***************************************************************************)
(* Text.  A string is a sequence of characters, a character a one-letter   *)
(* string; MultiByte2 / MultiByte3 stand for characters whose UTF-8        *)
(* encoding takes two / three bytes.                                       *)
(***************************************************************************)
Digits == {"0", "1", "2", "3", "4", "5", "6", "7", "8", "9"}
UpperCase ==
    <<"A", "B", "C", "D", "E", "F", "G", "H", "I", "J", "K", "L", "M",
      "N", "O", "P", "Q", "R", "S", "T", "U", "V", "W", "X", "Y", "Z">>
LowerCase ==
    <<"a", "b", "c", "d", "e", "f", "g", "h", "i", "j", "k", "l", "m",
      "n", "o", "p", "q", "r", "s", "t", "u", "v", "w", "x", "y", "z">>
Range(sq) == {sq[i] : i \in DOMAIN sq}
UpperLetters == Range(UpperCase)
AsciiLetters == UpperLetters \cup Range(LowerCase)
MultiByte2 == {"e'"}
MultiByte3 == {"han", "U+FFFD"}
Spaces == {" ", "\t", "\n", "\r"}
WordChars == AsciiLetters \cup Digits \cup {"_"} \cup {"e'", "han"}

\* len(c.encode("utf-8"))
ByteLen(c) == IF c \in MultiByte2 THEN 2 ELSE IF c \in MultiByte3 THEN 3 ELSE 1

\* len(s.encode("utf-8")): one byte for every character and the further bytes
\* of the characters that take two or three
Utf8Len(s) ==
    Len(s) + Cardinality({i \in DOMAIN s : ByteLen(s[i]) = 2})
           + 2 * Cardinality({i \in DOMAIN s : ByteLen(s[i]) = 3})

\* str.lower() of one character, as re.IGNORECASE compares
ToLower(c) ==
    IF c \in UpperLetters
    THEN LowerCase[CHOOSE i \in 1..26 : UpperCase[i] = c]
    ELSE c

\* s[:n]
Take(s, n) == SubSeq(s, 1, Min(n, Len(s)))

\* s[i-1:] for a 1-based i
From(s, i) == SubSeq(s, i, Len(s))

\* the literal lit at position i of s (lit in lower case when ignoring case)
LitAt(s, i, lit, ignoreCase) ==
    /\ i + Len(lit) - 1 <= Len(s)
    /\ \A k \in 1..Len(lit) :
          (IF ignoreCase THEN ToLower(s[i + k - 1]) ELSE s[i + k - 1]) = lit[k]

RECURSIVE SkipIn(_, _, _)
\* where a greedy C* that starts at i stops
SkipIn(s, i, C) ==
    IF i <= Len(s) /\ s[i] \in C THEN SkipIn(s, i + 1, C) ELSE i

RECURSIVE SkipNotIn(_, _, _)
\* where a greedy [^C]* that starts at i stops
SkipNotIn(s, i, C) ==
    IF i <= Len(s) /\ s[i] \notin C THEN SkipNotIn(s, i + 1, C) ELSE i

RECURSIVE RStrip(_, _)
\* str.rstrip(C)
RStrip(s, C) ==
    IF s # <<>> /\ s[Len(s)] \in C THEN RStrip(SubSeq(s, 1, Len(s) - 1), C) ELSE s

RECURSIVE IntToChars(_)
\* str(n) for n >= 0
IntToChars(n) ==
    LET d == <<"0", "1", "2", "3", "4", "5", "6", "7", "8", "9">>[(n % 10) + 1]
    IN  IF n < 10 THEN <<d>> ELSE Append(IntToChars(n \div 10), d)

RECURSIVE CharsToInt(_)
\* int(s) for a string of digits
CharsToInt(s) ==
    IF s = <<>> THEN 0
    ELSE CharsToInt(SubSeq(s, 1, Len(s) - 1)) * 10
         + (CHOOSE v \in 0..9 : IntToChars(v) = <<s[Len(s)]>>)

\* str(ts) of a time in epoch milliseconds
MsToChars(ts) ==
    IntToChars(ts.s) \o IntToChars((ts.ms \div 100) % 10)
        \o IntToChars((ts.ms \div 10) % 10) \o IntToChars(ts.ms % 10)

AllDigits(s) == \A i \in 1..Len(s) : s[i] \in Digits

\* sub in s
Contains(s, sub) ==
    \E i \in 1..(Len(s) - Len(sub) + 1) : SubSeq(s, i, i + Len(sub) - 1) = sub

(***************************************************************************)
(* redact(s): REDACT_PATTERNS applied in order (lines 57-62, 113-117).     *)
(* A match is [g1 |-> end of group 1, end |-> end of the match], both      *)
(* exclusive; end = 0 says there is no match at that position.             *)
(***************************************************************************)
REDACTED == <<"[", "R", "E", "D", "A", "C", "T", "E", "D", "]">>
NoMatch == [g1 |-> 0, end |-> 0]
TokenChars == AsciiLetters \cup Digits \cup {"-", ".", "_", "~", "+", "/"}
SecretKeys ==
    <<<<"t", "o", "k", "e", "n">>,
      <<"a", "c", "c", "e", "s", "s", "_", "t", "o", "k", "e", "n">>,
      <<"r", "e", "f", "r", "e", "s", "h", "_", "t", "o", "k", "e", "n">>,
      <<"s", "e", "c", "r", "e", "t">>,
      <<"p", "a", "s", "s", "w", "o", "r", "d">>>>

\* (Bearer\s+)[A-Za-z0-9\-\._~\+\/]+=*  at position i
BearerAt(s, i) ==
    LET lit == <<"b", "e", "a", "r", "e", "r">>
        j == i + Len(lit)
        k == SkipIn(s, j, Spaces)
        m == SkipIn(s, k, TokenChars)
    IN  IF LitAt(s, i, lit, TRUE) /\ k > j /\ m > k
        THEN [g1 |-> k, end |-> SkipIn(s, m, {"="})]
        ELSE NoMatch

\* (Authorization:\s*Bearer\s+)[A-Za-z0-9\-\._~\+\/]+=*  at position i
AuthorizationAt(s, i) ==
    LET lit == <<"a", "u", "t", "h", "o", "r", "i", "z", "a", "t", "i", "o", "n", ":">>
    IN  IF LitAt(s, i, lit, TRUE)
        THEN BearerAt(s, SkipIn(s, i + Len(lit), Spaces))
        ELSE NoMatch

\* (token|access_token|refresh_token|secret|password) at position i: where the
\* first alternative that matches ends, 0 when none does
KeyEnd(s, i) ==
    LET hits == {n \in 1..Len(SecretKeys) : LitAt(s, i, SecretKeys[n], TRUE)}
    IN  IF hits = {} THEN 0
        ELSE i + Len(SecretKeys[CHOOSE n \in hits : \A o \in hits : n <= o])

\* \b at position i
WordBoundary(s, i) ==
    (i <= Len(s) /\ s[i] \in WordChars) # (i > 1 /\ s[i - 1] \in WordChars)

\* (\b(token|...)\s*=\s*)[^\s&]+  at position i
KeyEqualsAt(s, i) ==
    LET j == KeyEnd(s, i)
        k == SkipIn(s, j, Spaces)
        v == SkipIn(s, k + 1, Spaces)
        m == SkipNotIn(s, v, Spaces \cup {"&"})
    IN  IF WordBoundary(s, i) /\ j > 0 /\ k <= Len(s) /\ s[k] = "=" /\ m > v
        THEN [g1 |-> v, end |-> m]
        ELSE NoMatch

\* ("?(token|...)"?\s*:\s*)"?[^"\s,}]+  at position i
KeyColonAt(s, i) ==
    LET q == IF i <= Len(s) /\ s[i] = "\"" THEN i + 1 ELSE i
        j == KeyEnd(s, q)
        j2 == IF j <= Len(s) /\ s[j] = "\"" THEN j + 1 ELSE j
        k == SkipIn(s, j2, Spaces)
        g == SkipIn(s, k + 1, Spaces)
        v == IF g <= Len(s) /\ s[g] = "\"" THEN g + 1 ELSE g
        m == SkipNotIn(s, v, Spaces \cup {"\"", ",", "}"})
    IN  IF j > 0 /\ k <= Len(s) /\ s[k] = ":" /\ m > v
        THEN [g1 |-> g, end |-> m]
        ELSE NoMatch

\* pattern p of REDACT_PATTERNS at position i
PatternAt(p, s, i) ==
    CASE p = 1 -> AuthorizationAt(s, i)
      [] p = 2 -> BearerAt(s, i)
      [] p = 3 -> KeyEqualsAt(s, i)
      [] OTHER -> KeyColonAt(s, i)

\* the replacement of pattern p
Replacement(p) == IF p = 4 THEN <<"\"">> \o REDACTED \o <<"\"">> ELSE REDACTED

RECURSIVE SubFrom(_, _, _)
\* pat.sub(rep, s), from position i on: leftmost matches, left to right
SubFrom(p, s, i) ==
    IF i > Len(s) THEN <<>>
    ELSE LET r == PatternAt(p, s, i)
         IN  IF r.end > 0
             THEN SubSeq(s, i, r.g1 - 1) \o Replacement(p) \o SubFrom(p, s, r.end)
             ELSE <<s[i]>> \o SubFrom(p, s, i + 1)

redact(s) == SubFrom(4, SubFrom(3, SubFrom(2, SubFrom(1, s, 1), 1), 1), 1)

(***************************************************************************)
(* LOG_START_RE, LEVEL_RE, parse_iso_to_epoch_ms, extract_metadata         *)
(***************************************************************************)
LOCAL_UTC_OFFSET_MIN == 540
Levels ==
    <<<<"T", "R", "A", "C", "E">>, <<"D", "E", "B", "U", "G">>, <<"I", "N", "F", "O">>,
      <<"W", "A", "R", "N">>, <<"E", "R", "R", "O", "R">>>>
LevelNames == <<"TRACE", "DEBUG", "INFO", "WARN", "ERROR">>

\* LOG_START_RE.match(s): ^\d{4}-\d{2}-\d{2}T\d{2}:\d{2}:\d{2}
LOG_START_RE(s) ==
    /\ Len(s) >= 19
    /\ \A i \in {1, 2, 3, 4, 6, 7, 9, 10, 12, 13, 15, 16, 18, 19} : s[i] \in Digits
    /\ s[5] = "-" /\ s[8] = "-" /\ s[11] = "T" /\ s[14] = ":" /\ s[17] = ":"

\* the level whose name stands at position k between white space, 0 when none
LevelAt(s, k) ==
    LET hits == {n \in 1..Len(Levels) :
                    /\ LitAt(s, k, Levels[n], FALSE)
                    /\ k + Len(Levels[n]) <= Len(s)
                    /\ s[k + Len(Levels[n])] \in Spaces}
    IN  IF k > 1 /\ s[k - 1] \in Spaces /\ hits # {}
        THEN CHOOSE n \in hits : TRUE
        ELSE 0

\* LEVEL_RE.search(s): \s+(TRACE|DEBUG|INFO|WARN|ERROR)\s+ ; group 1, "" when
\* there is no match
LEVEL_RE(s) ==
    LET at == {k \in 1..Len(s) : LevelAt(s, k) > 0}
    IN  IF at = {} THEN ""
        ELSE LevelNames[LevelAt(s, CHOOSE k \in at : \A o \in at : k <= o)]

\* days from 1970-01-01 to the civil date y-m-d
DaysFromCivil(y, m, d) ==
    LET yy == IF m <= 2 THEN y - 1 ELSE y
        era == yy \div 400
        yoe == yy - era * 400
        mp == IF m > 2 THEN m - 3 ELSE m + 9
        doy == (153 * mp + 2) \div 5 + d - 1
        doe == yoe * 365 + yoe \div 4 - yoe \div 100 + doy
    IN  era * 146097 + doe - 719468

IsLeap(y) == (y % 4 = 0 /\ y % 100 # 0) \/ y % 400 = 0
DaysIn(y, m) ==
    IF m = 2 THEN (IF IsLeap(y) THEN 29 ELSE 28)
    ELSE IF m \in {4, 6, 9, 11} THEN 30 ELSE 31

\* the zone suffix z of an ISO time: "" (a naive time, which timestamp() reads
\* in the local zone) or +HH:MM / -HH:MM; ok says whether z is one of these
ZoneOffset(z) ==
    IF z = <<>> THEN [ok |-> TRUE, min |-> LOCAL_UTC_OFFSET_MIN]
    ELSE IF /\ Len(z) = 6 /\ z[1] \in {"+", "-"} /\ z[4] = ":"
            /\ AllDigits(<<z[2], z[3], z[5], z[6]>>)
            /\ CharsToInt(<<z[2], z[3]>>) <= 23 /\ CharsToInt(<<z[5], z[6]>>) <= 59
    THEN [ok |-> TRUE,
          min |-> (IF z[1] = "+" THEN 1 ELSE -1)
                     * (CharsToInt(<<z[2], z[3]>>) * 60 + CharsToInt(<<z[5], z[6]>>))]
    ELSE [ok |-> FALSE, min |-> 0]

RECURSIVE ReplaceZ(_)
\* iso_str.replace("Z", "+00:00")
ReplaceZ(s) ==
    IF s = <<>> THEN <<>>
    ELSE (IF Head(s) = "Z" THEN <<"+", "0", "0", ":", "0", "0">> ELSE <<Head(s)>>)
         \o ReplaceZ(Tail(s))

\* parse_iso_to_epoch_ms(iso), called at wall-clock time now, for a token that
\* LOG_START_RE matches.  Epoch milliseconds do not fit a 32-bit integer: a
\* time is [s |-> whole seconds, ms |-> the milliseconds on top], for the
\* years 1970 to 2037.  The forms
\* YYYY-MM-DDTHH:MM:SS[.fff[fff]][+HH:MM] are parsed, anything else (and any
\* field out of range) makes datetime.fromisoformat raise, and the except
\* clause answers with the wall clock
parse_iso_to_epoch_ms(iso, now) ==
    LET t == ReplaceZ(iso)
        y == CharsToInt(SubSeq(t, 1, 4))
        mo == CharsToInt(SubSeq(t, 6, 7))
        d == CharsToInt(SubSeq(t, 9, 10))
        h == CharsToInt(SubSeq(t, 12, 13))
        mi == CharsToInt(SubSeq(t, 15, 16))
        sec == CharsToInt(SubSeq(t, 18, 19))
        fEnd == IF Len(t) >= 20 /\ t[20] = "." THEN SkipIn(t, 21, Digits) ELSE 20
        nFrac == IF fEnd > 20 THEN fEnd - 21 ELSE 0
        ms == IF nFrac >= 3 THEN CharsToInt(SubSeq(t, 21, 23)) ELSE 0
        zone == ZoneOffset(From(t, fEnd))
        ok == /\ y >= 1 /\ mo \in 1..12 /\ d >= 1 /\ d <= DaysIn(y, mo)
              /\ h <= 23 /\ mi <= 59 /\ sec <= 59
              /\ (fEnd = 20 \/ nFrac \in {3, 6})
              /\ zone.ok
    IN  IF ok
        THEN [s |-> ((DaysFromCivil(y, mo, d) * 24 + h) * 60 + mi - zone.min) * 60 + sec,
              ms |-> ms]
        ELSE now

\* line.split(' ', 1)[0]
FirstToken(s) == SubSeq(s, 1, SkipNotIn(s, 1, {" "}) - 1)

\* extract_metadata(line), called at wall-clock time now (lines 127-145)
extract_metadata(line, now) ==
    [ts |-> IF LOG_START_RE(FirstToken(line))
            THEN parse_iso_to_epoch_ms(FirstToken(line), now)
            ELSE now,
     level |-> IF LEVEL_RE(line) # "" THEN LEVEL_RE(line) ELSE "INFO"]

\* make_event_id(server_name, ts, msg) (lines 165-168); sha1 is taken to be
\* one-to-one, the id is the text that is hashed
HEAD_CHARS == 512
\* SERVER_NAME = env("SERVER_NAME", "unknown")
SERVER_NAME == <<"u", "n", "k", "n", "o", "w", "n">>
make_event_id(server_name, ts, msg) ==
    server_name \o <<"|">> \o MsToChars(ts) \o <<"|">> \o Take(msg, HEAD_CHARS)

(***************************************************************************)
(* queue.Queue, as used through put_nowait / get_nowait / get / task_done  *)
(***************************************************************************)
\* variant: the bound checked one too late
Full_late(q) == LOG_QUEUE_MAX_BATCHES > 0 /\ Len(q) > LOG_QUEUE_MAX_BATCHES

\* Queue._qsize() >= maxsize, checked only for maxsize > 0
Full(q) == LOG_QUEUE_MAX_BATCHES > 0 /\ Len(q) >= LOG_QUEUE_MAX_BATCHES

\* variant: the batch goes in front
put_nowait_front(q, b) == <<b>> \o q

\* Queue._put: deque.append
put_nowait(q, b) == Append(q, b)

\* Queue._get: deque.popleft; the item returned
get_item(q) == Head(q)

\* variant: get_nowait hands the batch over and leaves it in the queue
get_rest_none(q) == q

\* variant: the newest batch is the one removed
get_rest_newest(q) == SubSeq(q, 1, Len(q) - 1)

\* Queue._get: deque.popleft; what stays
get_rest(q) == Tail(q)

(***************************************************************************)
(* enqueue_drop_oldest(batch), one step per queue operation                *)
(***************************************************************************)
\* history of the enqueue_drop_oldest call main() is in: how many batches it
\* has evicted, and whether the Sender has done no queue operation meanwhile
NoPush == [evictions |-> 0, alone |-> TRUE]
Disturbed ==
    IF pc["ingest"] \in {"put", "evict"} THEN [pushing EXCEPT !.alone = FALSE]
    ELSE pushing

\* line 75-76: put_nowait succeeds and the call returns True; the caller goes on:
\* flush_batch clears the batch and restarts the flush timer (lines 252-254),
\* sender_loop sleeps 0.2 s and reaches its finally clause (lines 100, 106).
\* line 77: queue.Full sends the thread to the eviction.
EnqueuePut(t) ==
    /\ pc[t] = "put"
    /\ IF ~Full(send_q)
       THEN /\ send_q' = put_nowait(send_q, enq[t])
            /\ unfinished' = unfinished + 1
            /\ enq' = [enq EXCEPT ![t] = NoBatch]
            /\ IF t = "ingest"
               THEN /\ pc' = [pc EXCEPT ![t] = "main"]
                    /\ batch' = <<>>
                    /\ sinceFlush' = 0
                    /\ pushing' = NoPush
               ELSE /\ pc' = [pc EXCEPT ![t] = "task_done"]
                    /\ pushing' = Disturbed
                    /\ UNCHANGED <<batch, sinceFlush>>
       ELSE /\ pc' = [pc EXCEPT ![t] = "evict"]
            /\ UNCHANGED <<send_q, unfinished, enq, batch, sinceFlush, pushing>>
    /\ UNCHANGED <<senderVars, nextId, ghostVars>>
    /\ UNCHANGED <<fileVars, tailVars, histVars, sideVars>>

\* line 78-83: get_nowait drops the oldest batch and task_done balances it;
\* on queue.Empty the loop just tries the put again.
EnqueueEvict(t) ==
    /\ pc[t] = "evict"
    /\ IF send_q # <<>>
       THEN /\ send_q' = get_rest(send_q)
            /\ unfinished' = unfinished - 1
            /\ evicted' = evicted \cup {get_item(send_q).id}
            /\ pushing' = IF t = "ingest" THEN [pushing EXCEPT !.evictions = @ + 1]
                           ELSE Disturbed
       ELSE UNCHANGED <<send_q, unfinished, evicted, pushing>>
    /\ pc' = [pc EXCEPT ![t] = "put"]
    /\ UNCHANGED <<enq, ingestVars, senderVars, nextId, delivered, rejected>>
    /\ UNCHANGED <<fileVars, tailVars, histVars, sideVars>>

(***************************************************************************)
(* flush_batch(): hand a copy of the batch to enqueue_drop_oldest          *)
(***************************************************************************)
\* variant: the list itself is handed over, not a copy
batch_itself(new) == MainList

\* line 251: batch.copy() returns a list object of its own (new), holding the
\* events the batch holds at that moment
batch_copy(new) == new

\* what the holder of the batch b reads in it while main()'s list holds main
Contents(b, main) == IF b.list = MainList THEN main ELSE b.events

\* line 250-251, for a batch b that is not empty
flush_batch(b) ==
    /\ enq' = [enq EXCEPT !["ingest"] = [id |-> nextId, events |-> b, requeues |-> 0,
                                         list |-> batch_copy(nextId)]]
    /\ pc' = [pc EXCEPT !["ingest"] = "put"]
    /\ nextId' = nextId + 1
    /\ pushing' = NoPush

(***************************************************************************)
(* The ingest side as the queue sees it: main() runs until it next calls   *)
(* flush_batch, with the smallest or the largest batch it hands over (one  *)
(* event or BATCH_MAX_LINES events).                                       *)
(***************************************************************************)
StandInEvent(n) ==
    [serverName |-> SERVER_NAME, ts |-> [s |-> n, ms |-> 0], level |-> "INFO",
     message |-> <<"e">>,
     eventId |-> make_event_id(SERVER_NAME, [s |-> n, ms |-> 0], <<"e">>)]

IngestProduce(limit) ==
    /\ pc["ingest"] = "main"
    /\ nextId <= limit
    /\ \E n \in {1, BATCH_MAX_LINES} :
          /\ batch' = [i \in 1..n |-> StandInEvent(i)]
          /\ flush_batch(batch')
    /\ UNCHANGED <<queueVars, sinceFlush, senderVars, ghostVars>>
    /\ UNCHANGED <<fileVars, tailVars, histVars, sideVars>>

(***************************************************************************)
(* sender_loop() and send_with_retry(batch)                                *)
(***************************************************************************)
\* variant: 200 itself is not taken for a success
IsSuccess_above200(st) == 200 < st /\ st < 300

\* line 195
IsSuccess(st) == 200 <= st /\ st < 300

\* variant: 404 is taken for retryable
IsPermanent_not404(st) == 400 <= st /\ st < 500 /\ st # 429 /\ st # 404

\* line 199
IsPermanent(st) == 400 <= st /\ st < 500 /\ st # 429

\* variant: the backoff grows by a fixed step
NextBackoff_linear(b) == Min(b + BACKOFF_INITIAL_MS, BACKOFF_MAX_MS)

\* line 216
NextBackoff(b) == Min(b * 2, BACKOFF_MAX_MS)

\* line 214: min(backoff, max(0.0, deadline - time.time()))
SleepMs(b, e) == Min(b, Max(0, DROP_AFTER_MS - e))

\* sender_loop line 97-99: r is False, the batch goes back through
\* enqueue_drop_oldest
Requeue ==
    /\ enq' = [enq EXCEPT !["sender"] = [sbatch EXCEPT !.requeues = @ + 1]]
    /\ pc' = [pc EXCEPT !["sender"] = "put"]

\* sender_loop line 88, then send_with_retry line 174-178
SenderGet ==
    /\ pc["sender"] = "get"
    /\ send_q # <<>>
    /\ sbatch' = get_item(send_q)
    /\ send_q' = get_rest(send_q)
    /\ backoff' = BACKOFF_INITIAL_MS
    /\ elapsed' = 0
    /\ attempts' = 0
    /\ fails' = 0
    /\ lastStatus' = -1
    /\ sleeps' = <<>>
    /\ pc' = [pc EXCEPT !["sender"] = "check"]
    /\ pushing' = Disturbed
    /\ UNCHANGED <<unfinished, enq, ingestVars, nextId, ghostVars>>
    /\ UNCHANGED <<fileVars, tailVars, histVars, sideVars>>

\* variant: the deadline is not looked at before an attempt
Expired_never(e) == FALSE

\* line 183: now >= deadline, for e = now - (deadline - DROP_AFTER_S)
Expired(e) == e >= DROP_AFTER_MS

\* send_with_retry line 182-185
SenderCheck ==
    /\ pc["sender"] = "check"
    /\ IF Expired(elapsed)
       THEN Requeue
       ELSE /\ pc' = [pc EXCEPT !["sender"] = "post"]
            /\ UNCHANGED enq
    /\ UNCHANGED <<queueVars, ingestVars, senderVars, nextId, ghostVars, pushing>>
    /\ UNCHANGED <<fileVars, tailVars, histVars, sideVars>>

\* send_with_retry line 187-206: one requests.post that answers st (0: it raised)
\* after d ms; sender_loop line 94-95 and 102-104 for the two final answers.
\* The history variables record what the endpoint answered, whatever the code
\* makes of it.
SenderPost(Statuses, Durations) ==
    /\ pc["sender"] = "post"
    /\ \E st \in Statuses, d \in Durations :
          /\ (st \in 200..299 \/ st \in (400..499) \ {429} \/ sbatch.requeues < MaxRequeues)
          /\ attempts' = attempts + 1
          /\ lastStatus' = st
          /\ elapsed' = elapsed + d
          /\ delivered' = IF st \in 200..299 THEN delivered \cup {sbatch.id} ELSE delivered
          /\ rejected' = IF st \in (400..499) \ {429}
                         THEN rejected \cup {sbatch.id} ELSE rejected
          /\ fails' = IF st \in (200..299) \cup ((400..499) \ {429})
                      THEN fails ELSE fails + 1
          /\ IF IsSuccess(st)
             THEN pc' = [pc EXCEPT !["sender"] = "task_done"]
             ELSE IF IsPermanent(st)
             THEN pc' = [pc EXCEPT !["sender"] = "task_done"]
             ELSE pc' = [pc EXCEPT !["sender"] = "remaining"]
    /\ UNCHANGED <<queueVars, enq, ingestVars, sbatch, backoff, sleeps, nextId, evicted,
                   pushing>>
    /\ UNCHANGED <<fileVars, tailVars, histVars, sideVars>>

\* send_with_retry line 208-211
SenderRemaining ==
    /\ pc["sender"] = "remaining"
    /\ IF DROP_AFTER_MS - elapsed <= 0
       THEN Requeue
       ELSE /\ pc' = [pc EXCEPT !["sender"] = "sleep"]
            /\ UNCHANGED enq
    /\ UNCHANGED <<queueVars, ingestVars, senderVars, nextId, ghostVars, pushing>>
    /\ UNCHANGED <<fileVars, tailVars, histVars, sideVars>>

\* send_with_retry line 214-216: the sleep lasts sleep_s * j / 1000 for a jitter
\* j (in thousandths) drawn from random.uniform(0.7, 1.3)
SenderSleep(Jitters) ==
    /\ pc["sender"] = "sleep"
    /\ \E j \in Jitters :
          elapsed' = elapsed + (SleepMs(backoff, elapsed) * j) \div 1000
    /\ sleeps' = Append(sleeps, backoff)
    /\ backoff' = NextBackoff(backoff)
    /\ pc' = [pc EXCEPT !["sender"] = "check"]
    /\ UNCHANGED <<queueVars, enq, ingestVars, sbatch, attempts, fails, lastStatus,
                   nextId, ghostVars, pushing>>
    /\ UNCHANGED <<fileVars, tailVars, histVars, sideVars>>

\* sender_loop line 105-106
SenderTaskDone ==
    /\ pc["sender"] = "task_done"
    /\ unfinished' = unfinished - 1
    /\ sbatch' = NoBatch
    /\ pc' = [pc EXCEPT !["sender"] = "get"]
    /\ UNCHANGED <<send_q, enq, ingestVars, backoff, elapsed, attempts, fails,
                   lastStatus, sleeps, nextId, ghostVars, pushing>>
    /\ UNCHANGED <<fileVars, tailVars, histVars, sideVars>>

(***************************************************************************)
(* The log file as main() sees it (lines 147-163, 221-223, 257)            *)
(***************************************************************************)
FLUSH_INTERVAL_MS == 200
TICK_MS == 100
MAX_EVENT_BYTES_DEFAULT == 32768
TRUNCATED_MARK ==
    <<"\n", ".", ".", ".", "(", "t", "r", "u", "n", "c", "a", "t", "e", "d", ")">>

\* a line of the file: its text, the bytes of its terminator (1 for "\n", 2
\* for "\r\n", which the text mode of open() hands over as "\n") and the
\* bytes the line takes in the file
FileLine(text, eol) == [text |-> text, eol |-> eol, size |-> Utf8Len(text) + eol]

RECURSIVE FileSize(_)
\* os.stat(path).st_size
FileSize(content) ==
    IF content = <<>> THEN 0
    ELSE Head(content).size + FileSize(Tail(content))

RECURSIVE DecodeFrom(_, _)
\* the text of a line from its byte b on, decoded with errors="replace": every
\* byte left of a character cut in two becomes U+FFFD
DecodeFrom(text, b) ==
    IF b = 0 \/ text = <<>> THEN text
    ELSE IF b >= ByteLen(Head(text)) THEN DecodeFrom(Tail(text), b - ByteLen(Head(text)))
    ELSE [k \in 1..(ByteLen(Head(text)) - b) |-> "U+FFFD"] \o Tail(text)

RECURSIVE readline(_, _)
\* f.readline() at byte offset pos: the line with its "\n" and the bytes it
\* took, or "" at the end of the file
readline(content, pos) ==
    IF content = <<>> THEN [line |-> <<>>, bytes |-> 0]
    ELSE LET n == Head(content).size
         IN  IF pos >= n THEN readline(Tail(content), pos - n)
             ELSE [line |-> DecodeFrom(Head(content).text, pos) \o <<"\n">>,
                   bytes |-> n - pos]

\* open_file_wait(LOG_PATH) once the file is there, and f.tell()
open_file_wait ==
    [ino |-> pathIno,
     pos |-> IF cfg.START_AT_END THEN FileSize(disk[pathIno]) ELSE 0]

(***************************************************************************)
(* The assembler inside main() (lines 229-245, 280-306)                    *)
(***************************************************************************)
\* finalize_pending() for pending = p
finalize_pending(p) ==
    LET ev(msg) ==
            [serverName |-> SERVER_NAME, ts |-> p.ts, level |-> p.level,
             message |-> msg, eventId |-> make_event_id(SERVER_NAME, p.ts, msg)]
    IN  ev(IF Utf8Len(p.message) > cfg.MAX_EVENT_BYTES
           THEN Take(p.message, cfg.MAX_EVENT_BYTES) \o TRUNCATED_MARK
           ELSE p.message)

\* line 289-294: the event a start line opens
NewPending(line, now) ==
    [ts |-> extract_metadata(line, now).ts, level |-> extract_metadata(line, now).level,
     message |-> line]

\* variant: the line is joined without the newline
Continue_glued(p, line) == [p EXCEPT !.message = @ \o line]

\* line 298: a continuation line joins the pending event
Continue(p, line) == [p EXCEPT !.message = @ \o <<"\n">> \o line]

\* variant: the line that finds nothing pending is not kept
Synthetic_empty(line, now) == [ts |-> now, level |-> "INFO", message |-> <<>>]

\* line 302-306: a continuation line with nothing pending
Synthetic(line, now) == [ts |-> now, level |-> "INFO", message |-> line]

\* what finalize_pending leaves in the history: the event and the lines of fed
\* it was built from
Finalized(p) == [ev |-> finalize_pending(p), from |-> pendingFrom, to |-> Len(fed)]

(***************************************************************************)
(* main(): one iteration of the loop at line 256 per step                  *)
(***************************************************************************)
\* line 257, 276-309: readline returned a line.  now is what time.time() answers
\* where the iteration asks, dt the time the iteration takes.
ReadLine(Clock, LineMs) ==
    /\ pc["ingest"] = "main"
    /\ \E r \in {readline(disk[f.ino], f.pos)} :
       \E line \in {redact(RStrip(r.line, {"\r", "\n"}))} :
       \E is_new_start \in {LOG_START_RE(line)} :
       \E closed \in {IF is_new_start /\ pending # <<>>
                      THEN <<Finalized(pending[1])>> ELSE <<>>} :
       LET closes == closed # <<>>
           batch1 == IF closes THEN Append(batch, closed[1].ev) ELSE batch
       IN  /\ r.line # <<>>
           /\ f' = [f EXCEPT !.pos = @ + r.bytes]
           /\ current_offset' = current_offset + Len(r.line)
           /\ \E now \in Clock :
                 /\ pending' = << IF is_new_start THEN NewPending(line, now)
                                  ELSE IF pending # <<>> THEN Continue(pending[1], line)
                                  ELSE Synthetic(line, now) >>
                 /\ fed' = Append(fed, [line |-> line, now |-> now,
                                        cut |-> fedAtReopen = Len(fed)])
           /\ pendingFrom' = IF is_new_start \/ pending = <<>>
                             THEN Len(fed) + 1 ELSE pendingFrom
           /\ finalized' = finalized \o closed
           /\ batch' = batch1
           /\ \E dt \in LineMs : sinceFlush' = Min(sinceFlush + dt, FLUSH_INTERVAL_MS)
           /\ IF Len(batch1) >= BATCH_MAX_LINES
              THEN flush_batch(batch1)
              ELSE UNCHANGED <<enq, pc, nextId, pushing>>
    /\ lastStep' = "line"
    /\ UNCHANGED <<queueVars, senderVars, ghostVars, fileVars, inode, forced, fedAtReopen,
                   sideVars>>

\* line 257-274: readline returned "".  After the sleep the file is compared
\* with what main() tracks; when it was truncated or replaced it is opened
\* again and the pending event is finalized into the batch; the batch is
\* flushed when the flush interval has passed.
NoDataTick ==
    /\ pc["ingest"] = "main"
    /\ readline(disk[f.ino], f.pos).line = <<>>
    /\ \E new_inode \in {pathIno}, new_size \in {FileSize(disk[pathIno])} :
       \E rotated \in {new_size < current_offset \/ (inode # 0 /\ new_inode # inode)} :
       \E closed \in {IF rotated /\ pending # <<>>
                      THEN <<Finalized(pending[1])>> ELSE <<>>} :
       LET closes == closed # <<>>
           batch1 == IF closes THEN Append(batch, closed[1].ev) ELSE batch
           waited == Min(sinceFlush + TICK_MS, FLUSH_INTERVAL_MS)
       IN  /\ IF rotated
              THEN /\ f' = open_file_wait
                   /\ inode' = pathIno
                   /\ current_offset' = open_file_wait.pos
                   /\ pending' = <<>>
                   /\ fedAtReopen' = Len(fed)
                   /\ lastStep' = "reopen"
              ELSE /\ UNCHANGED <<f, inode, current_offset, pending, fedAtReopen>>
                   /\ lastStep' = "tick"
           /\ finalized' = finalized \o closed
           /\ forced' = IF closes THEN forced \cup {Len(finalized) + 1} ELSE forced
           /\ batch' = batch1
           /\ sinceFlush' = waited
           /\ IF batch1 # <<>> /\ waited >= FLUSH_INTERVAL_MS
              THEN flush_batch(batch1)
              ELSE UNCHANGED <<enq, pc, nextId, pushing>>
    /\ UNCHANGED <<queueVars, senderVars, ghostVars, fileVars, fed, pendingFrom, sideVars>>

(***************************************************************************)
(* forwarder.py: the earlier variant of the program.  It has no queue and  *)
(* no Sender thread: main() posts each batch itself, from flush().         *)
(***************************************************************************)
MAX_LINE_BYTES == 4096
FORWARDER_TICK_MS == 200
LINE_TRUNCATED_MARK ==
    <<".", ".", ".", "(", "t", "r", "u", "n", "c", "a", "t", "e", "d", ")">>
EVENT_TRUNCATED_MARK ==
    <<"\n", ".", ".", ".", "(", "e", "v", "e", "n", "t", " ", "t", "r", "u", "n", "c",
      "a", "t", "e", "d", ")">>
NoPrefix == [ok |-> FALSE, iso |-> <<>>, lvl |-> "", rid |-> <<>>]

\* \d{4}-\d{2}-\d{2}T\d{2}:\d{2}:\d{2}(?:\.\d+)?(?:Z|[+\-]\d{2}:\d{2}) at
\* position i of s: where the match ends (exclusive), 0 when there is none
IsoEnd(s, i) ==
    LET t == From(s, i)
        fEnd == IF Len(t) >= 20 /\ t[20] = "." THEN SkipIn(t, 21, Digits) ELSE 20
        zAt == IF fEnd > 21 THEN fEnd ELSE 20
        zEnd == IF zAt <= Len(t) /\ t[zAt] = "Z" THEN zAt + 1
                ELSE IF /\ zAt + 5 <= Len(t) /\ t[zAt] \in {"+", "-"} /\ t[zAt + 3] = ":"
                        /\ AllDigits(<<t[zAt + 1], t[zAt + 2], t[zAt + 4], t[zAt + 5]>>)
                THEN zAt + 6
                ELSE 0
    IN  IF LOG_START_RE(t) /\ zEnd > 0 THEN i + zEnd - 1 ELSE 0

\* (TRACE|DEBUG|INFO|WARN|ERROR) at position k: which one, 0 when none
LevelWordAt(s, k) ==
    LET hits == {n \in 1..Len(Levels) : LitAt(s, k, Levels[n], FALSE)}
    IN  IF hits = {} THEN 0 ELSE CHOOSE n \in hits : TRUE

\* <iso>\s+(?P<lvl>TRACE|DEBUG|INFO|WARN|ERROR)\b at position i, for the
\* request id rid that was matched before it
IsoLevelAt(s, i, rid) ==
    LET e == IsoEnd(s, i)
        k == SkipIn(s, e, Spaces)
        n == LevelWordAt(s, k)
        after == k + Len(Levels[n])
    IN  IF e > 0 /\ k > e /\ n > 0 /\ (after > Len(s) \/ s[after] \notin WordChars)
        THEN [ok |-> TRUE, iso |-> SubSeq(s, i, e - 1), lvl |-> LevelNames[n], rid |-> rid]
        ELSE NoPrefix

\* SPRING_PREFIX_RE.match(line) (lines 64-67)
SPRING_PREFIX_RE(line) == IsoLevelAt(line, 1, <<>>)

\* DOUBLE_PREFIX_RE.match(line) (lines 70-74)
DOUBLE_PREFIX_RE(line) ==
    LET d == SkipIn(line, 1, Digits)
        a == SkipIn(line, d, Spaces)
        n == LevelWordAt(line, a)
        b == a + Len(Levels[n])
        c == SkipIn(line, b, Spaces)
    IN  IF d > 1 /\ a > d /\ n > 0 /\ c > b
        THEN IsoLevelAt(line, c, SubSeq(line, 1, d - 1))
        ELSE NoPrefix

\* str.upper() of one character
ToUpper(c) ==
    IF c \in Range(LowerCase)
    THEN UpperCase[CHOOSE i \in 1..26 : LowerCase[i] = c]
    ELSE c

\* parse_level_and_ts(line), called at wall-clock time now (lines 84-109);
\* rid is "" for None
parse_level_and_ts(line, now) ==
    LET m2 == DOUBLE_PREFIX_RE(line)
        m1 == SPRING_PREFIX_RE(line)
        u == [i \in 1..Len(line) |-> ToUpper(line[i])]
        padded == <<" ">> \o u \o <<" ">>
    IN  IF m2.ok
        THEN [ts |-> parse_iso_to_epoch_ms(m2.iso, now), level |-> m2.lvl, rid |-> m2.rid]
        ELSE IF m1.ok
        THEN [ts |-> parse_iso_to_epoch_ms(m1.iso, now), level |-> m1.lvl, rid |-> <<>>]
        ELSE IF \/ Contains(padded, <<" ", "E", "R", "R", "O", "R", " ">>)
                \/ Take(u, 5) = <<"E", "R", "R", "O", "R">>
                \/ Contains(u, <<"E", "X", "C", "E", "P", "T", "I", "O", "N">>)
        THEN [ts |-> now, level |-> "ERROR", rid |-> <<>>]
        ELSE IF \/ Contains(padded, <<" ", "W", "A", "R", "N", " ">>)
                \/ Take(u, 4) = <<"W", "A", "R", "N">>
                \/ Contains(u, <<"W", "A", "R", "N", "I", "N", "G">>)
        THEN [ts |-> now, level |-> "WARN", rid |-> <<>>]
        ELSE [ts |-> now, level |-> "INFO", rid |-> <<>>]

\* is_continuation(line) (lines 111-121)
is_continuation(line) ==
    /\ line # <<>>
    /\ \/ Take(line, 3) = <<"a", "t", " ">>
       \/ Take(line, 4) = <<"\t", "a", "t", " ">>
       \/ Take(line, 10) = <<"C", "a", "u", "s", "e", "d", " ", "b", "y", ":">>
       \/ line[1] \in {" ", "\t"}

\* variant: the request id is left out of the hashed text
forwarder_make_event_id_no_rid(server_name, ts_ms, message, rid) ==
    server_name \o <<"|">> \o MsToChars(ts_ms) \o <<"|">> \o <<"|">>
        \o Take(message, HEAD_CHARS)

\* make_event_id(server_name, ts_ms, message, rid) of forwarder.py (lines
\* 141-145), the id again being the text that is hashed
forwarder_make_event_id(server_name, ts_ms, message, rid) ==
    server_name \o <<"|">> \o MsToChars(ts_ms) \o <<"|">> \o rid \o <<"|">>
        \o Take(message, HEAD_CHARS)

RECURSIVE CutBytes(_, _)
\* msg.encode("utf-8")[:n].decode("utf-8", errors="replace"): the characters
\* that fit in n bytes, and U+FFFD for a last character cut in two
CutBytes(msg, n) ==
    IF msg = <<>> \/ n <= 0 THEN <<>>
    ELSE IF ByteLen(Head(msg)) <= n
    THEN <<Head(msg)>> \o CutBytes(Tail(msg), n - ByteLen(Head(msg)))
    ELSE <<"U+FFFD">>

\* finalize_pending() of forwarder.py for pending = p (lines 178-198)
forwarder_finalize_pending(p) ==
    LET ev(msg) ==
            [serverName |-> SERVER_NAME, ts |-> p.ts, level |-> p.level,
             requestId |-> p.requestId, message |-> msg,
             eventId |-> forwarder_make_event_id(SERVER_NAME, p.ts, msg, p.requestId)]
    IN  ev(IF Utf8Len(p.message) > cfg.MAX_EVENT_BYTES
           THEN CutBytes(p.message, cfg.MAX_EVENT_BYTES) \o EVENT_TRUNCATED_MARK
           ELSE p.message)

\* flush() (lines 200-213) for the batch b and the pending event p as the
\* caller leaves them: the pending event joins the batch, and the batch, when
\* it is not empty, goes to send_with_retry, which main() then sits in
forwarder_flush(b, p) ==
    \E out \in {b \o (IF p # <<>> THEN <<forwarder_finalize_pending(p[1])>> ELSE <<>>)} :
       /\ batch' = out
       /\ pending' = <<>>
       /\ IF out = <<>>
          THEN /\ sinceFlush' = 0
               /\ UNCHANGED <<pc, backoff>>
          ELSE /\ pc' = [pc EXCEPT !["ingest"] = "send"]
               /\ backoff' = BACKOFF_INITIAL_MS
               /\ UNCHANGED sinceFlush

\* main() line 216, 239-269: readline returned a line
ForwarderReadLine(Clock, LineMs) ==
    /\ pc["ingest"] = "main"
    /\ \E r \in {readline(disk[f.ino], f.pos)} :
       \E raw \in {RStrip(r.line, {"\r", "\n"})} :
       \E line \in {redact(IF Len(raw) > MAX_LINE_BYTES
                           THEN Take(raw, MAX_LINE_BYTES) \o LINE_TRUNCATED_MARK
                           ELSE raw)} :
       \E joins \in {pending # <<>> /\ is_continuation(line)} :
       \E now \in Clock, dt \in LineMs :
       \E m \in {parse_level_and_ts(line, now)} :
       LET batch1 == IF joins \/ pending = <<>> THEN batch
                     ELSE Append(batch, forwarder_finalize_pending(pending[1]))
           pending1 == IF joins THEN <<Continue(pending[1], line)>>
                       ELSE <<[serverName |-> SERVER_NAME, ts |-> m.ts, level |-> m.level,
                               requestId |-> m.rid, message |-> line]>>
           waited == Min(sinceFlush + dt, FLUSH_INTERVAL_MS)
       IN  /\ r.line # <<>>
           /\ f' = [f EXCEPT !.pos = @ + r.bytes]
           /\ current_offset' = current_offset + Len(r.line)
           /\ IF Len(batch1) >= cfg.BATCH_MAX_LINES
              THEN forwarder_flush(batch1, pending1)
              ELSE IF batch1 # <<>> /\ waited >= FLUSH_INTERVAL_MS
              THEN forwarder_flush(batch1, pending1)
              ELSE /\ batch' = batch1
                   /\ pending' = pending1
                   /\ sinceFlush' = waited
                   /\ UNCHANGED <<pc, backoff>>
    /\ UNCHANGED <<queueVars, enq, sbatch, elapsed, attempts, fails, lastStatus, sleeps,
                   nextId, ghostVars, fileVars, inode, histVars, pushing, sideVars>>

\* main() line 216-237: readline returned ""
ForwarderNoDataTick ==
    /\ pc["ingest"] = "main"
    /\ readline(disk[f.ino], f.pos).line = <<>>
    /\ \E new_inode \in {pathIno}, new_size \in {FileSize(disk[pathIno])} :
       LET waited == Min(sinceFlush + FORWARDER_TICK_MS, FLUSH_INTERVAL_MS)
       IN  /\ IF new_size < current_offset
              THEN /\ f' = open_file_wait
                   /\ inode' = pathIno
                   /\ current_offset' = open_file_wait.pos
              ELSE IF inode # 0 /\ new_inode # inode
              THEN /\ f' = [ino |-> pathIno, pos |-> 0]
                   /\ inode' = pathIno
                   /\ current_offset' = 0
              ELSE UNCHANGED <<f, inode, current_offset>>
           /\ IF batch # <<>> /\ waited >= FLUSH_INTERVAL_MS
              THEN forwarder_flush(batch, pending)
              ELSE /\ sinceFlush' = waited
                   /\ UNCHANGED <<batch, pending, pc, backoff>>
    /\ UNCHANGED <<queueVars, enq, sbatch, elapsed, attempts, fails, lastStatus, sleeps,
                   nextId, ghostVars, fileVars, histVars, pushing, sideVars>>

\* send_with_retry(batch) of forwarder.py (lines 147-167), one requests.post
\* per step, answered st (0: it raised); then flush() line 211-213
ForwarderPost(Statuses) ==
    /\ pc["ingest"] = "send"
    /\ \E st \in Statuses :
          IF IsSuccess(st)
          THEN /\ received' = received \o batch
               /\ batch' = <<>>
               /\ sinceFlush' = 0
               /\ backoff' = 0
               /\ pc' = [pc EXCEPT !["ingest"] = "main"]
          ELSE /\ backoff' = NextBackoff(backoff)
               /\ UNCHANGED <<received, batch, sinceFlush, pc>>
    /\ UNCHANGED <<queueVars, enq, sbatch, elapsed, attempts, fails, lastStatus, sleeps,
                   nextId, ghostVars, fileVars, tailVars, histVars, pushing, args, ret>>

(***************************************************************************)
(* The writer of the log file and the log rotation                         *)
(***************************************************************************)
\* the application appends one whole line, at most limit lines in one run
WriterAppend(Lines, limit) ==
    /\ written < limit
    /\ \E l \in Lines : disk' = [disk EXCEPT ![pathIno] = Append(@, l)]
    /\ written' = written + 1
    /\ UNCHANGED <<queueVars, pc, enq, ingestVars, senderVars, nextId, ghostVars,
                   cfg, pathIno, cuts, tailVars, histVars, pushing, sideVars>>

\* the file is truncated in place (copytruncate)
Truncate ==
    /\ cuts < MaxCuts
    /\ disk[pathIno] # <<>>
    /\ disk' = [disk EXCEPT ![pathIno] = <<>>]
    /\ cuts' = cuts + 1
    /\ UNCHANGED <<queueVars, pc, enq, ingestVars, senderVars, nextId, ghostVars,
                   cfg, pathIno, written, tailVars, histVars, pushing, sideVars>>

\* the file is renamed away and a new, empty file takes its name
Rotate ==
    /\ cuts < MaxCuts
    /\ pathIno' = pathIno + 1
    /\ cuts' = cuts + 1
    /\ UNCHANGED <<queueVars, pc, enq, ingestVars, senderVars, nextId, ghostVars,
                   cfg, disk, written, tailVars, histVars, pushing, sideVars>>

(***************************************************************************)
(* Specifications                                                          *)
(***************************************************************************)
\* The lines the writer chooses from: a start line with a credential, a stack
\* frame with a two-byte character that ends in "\r\n", and a start line in
\* UTC without a level
ErrorLine ==
    <<"2", "0", "2", "6", "-", "0", "1", "-", "0", "3", "T", "2", "1", ":",
      "4", "6", ":", "0", "6", " ", "E", "R", "R", "O", "R", " ", "t", "o",
      "k", "e", "n", "=", "x">>
FrameLine ==
    <<"\t", "a", "t", " ", "e'">>
ZuluLine ==
    <<"2", "0", "2", "6", "-", "0", "1", "-", "0", "3", "T", "2", "1", ":",
      "4", "6", ":", "0", "7", "Z", " ", "x">>
SampleLines ==
    {FileLine(ErrorLine, 1), FileLine(FrameLine, 2), FileLine(ZuluLine, 1)}

\* The four lines of the multi-line scenario
ScenarioError ==
    <<"2", "0", "2", "6", "-", "0", "1", "-", "0", "3", "T", "2", "1", ":",
      "4", "6", ":", "0", "6", ".", "0", "9", "8", "+", "0", "9", ":", "0",
      "0", " ", "E", "R", "R", "O", "R", " ", ".", ".", ".", " ", "t", "r",
      "i", "g", "g", "e", "r">>
ScenarioException ==
    <<"j", "a", "v", "a", ".", "l", "a", "n", "g", ".", "R", "u", "n", "t",
      "i", "m", "e", "E", "x", "c", "e", "p", "t", "i", "o", "n", ":", " ",
      "d", "e", "m", "o">>
ScenarioFrame ==
    <<"\t", "a", "t", " ", "p", "k", "g", ".", "C", "l", "a", "s", "s", ".",
      "m", "e", "t", "h", "o", "d", "(", "F", "i", "l", "e", ".", "j", "a",
      "v", "a", ":", "2", "0", ")">>
ScenarioInfo ==
    <<"2", "0", "2", "6", "-", "0", "1", "-", "0", "3", "T", "2", "1", ":",
      "4", "6", ":", "0", "7", ".", "0", "0", "0", " ", "I", "N", "F", "O",
      " ", "n", "e", "x", "t">>
ScenarioLines == <<ScenarioError, ScenarioException, ScenarioFrame, ScenarioInfo>>

\* time.time() in the runs explored: 2026-01-03T22:00:00+09:00
WallClock == [s |-> 1767445200, ms |-> 0]
Clocks == {WallClock}
LineDurations == {0, TICK_MS}

\* the queue and the Sender right after start_sender_thread() (line 220), for
\* n = 0, or with n earlier batches waiting that the Sender has not fetched
QueueInit(n) ==
    /\ send_q = [i \in 1..n |-> [id |-> i, events |-> <<StandInEvent(i)>>,
                                 requeues |-> 0, list |-> i]]
    /\ unfinished = n
    /\ pc = [t \in Threads |-> IF t = "ingest" THEN "main" ELSE "get"]
    /\ enq = [t \in Threads |-> NoBatch]
    /\ sbatch = NoBatch
    /\ backoff = 0
    /\ elapsed = 0
    /\ attempts = 0
    /\ fails = 0
    /\ lastStatus = -1
    /\ sleeps = <<>>
    /\ nextId = n + 1
    /\ delivered = {}
    /\ rejected = {}
    /\ evicted = {}

\* main() line 221-227 with the settings c and the file it finds
TailInitWith(c, content) ==
    /\ cfg = c
    /\ disk = [i \in 1..(MaxCuts + 1) |-> IF i = 1 THEN content ELSE <<>>]
    /\ pathIno = 1
    /\ f = [ino |-> 1, pos |-> IF c.START_AT_END THEN FileSize(content) ELSE 0]
    /\ inode = 1
    /\ current_offset = (IF c.START_AT_END THEN FileSize(content) ELSE 0)
    /\ pending = <<>>
    /\ batch = <<>>
    /\ sinceFlush = 0
    /\ written = 0
    /\ cuts = 0
    /\ fed = <<>>
    /\ finalized = <<>>
    /\ forced = {}
    /\ fedAtReopen = -1
    /\ lastStep = "start"
    /\ pendingFrom = 0
    /\ pushing = NoPush
    /\ received = <<>>

\* no function is called on its own
NoCall == args = <<>> /\ ret = <<>>

\* main() with the batch size of line 31
TailInit(startAtEnd, maxEventBytes, content) ==
    /\ TailInitWith([START_AT_END |-> startAtEnd, MAX_EVENT_BYTES |-> maxEventBytes,
                     BATCH_MAX_LINES |-> BATCH_MAX_LINES], content)
    /\ NoCall

Init == QueueInit(0) /\ TailInit(TRUE, MAX_EVENT_BYTES_DEFAULT, <<>>)

\* What the endpoint and the clock do in the runs explored
AllStatuses == {0, 200, 204, 302, 400, 404, 429, 499, 500, 503}
SomeStatuses == {0, 200, 400, 429, 503}
FineDurations == {1, HTTP_TIMEOUT_MS}
FineJitters == {700, 1000, 1300}
SlowDurations == {SlowPostMs}
MidJitters == {1000}

\* The queue with both threads running
Next ==
    \/ IngestProduce(MaxBatches)
    \/ \E t \in Threads : EnqueuePut(t)
    \/ \E t \in Threads : EnqueueEvict(t)
    \/ SenderGet
    \/ SenderCheck
    \/ SenderPost(SomeStatuses, SlowDurations)
    \/ SenderRemaining
    \/ SenderSleep(MidJitters)
    \/ SenderTaskDone

Spec == Init /\ [][Next]_vars

\* The ingest side pushing while the Sender does not pop
NextPush ==
    \/ IngestProduce(MaxPushes)
    \/ EnqueuePut("ingest")
    \/ EnqueueEvict("ingest")

SpecPush == Init /\ [][NextPush]_vars

\* One batch in the queue and the Sender delivering it, with fine-grained time
InitSend == QueueInit(1) /\ TailInit(TRUE, MAX_EVENT_BYTES_DEFAULT, <<>>)

NextSend ==
    \/ SenderGet
    \/ SenderCheck
    \/ SenderPost(AllStatuses, FineDurations)
    \/ SenderRemaining
    \/ SenderSleep(FineJitters)
    \/ EnqueuePut("sender")
    \/ SenderTaskDone

SpecSend == InitSend /\ [][NextSend]_vars

\* The same with every step of the Sender taken sooner or later: the thread
\* runs, each requests.post returns or times out, each sleep ends
SpecSendFair ==
    /\ SpecSend
    /\ WF_vars(SenderCheck)
    /\ WF_vars(SenderPost(AllStatuses, FineDurations))
    /\ WF_vars(SenderRemaining)
    /\ WF_vars(SenderSleep(FineJitters))

\* The ingest side alone: the writer, truncation and rotation against the tailer,
\* while the Sender is stalled and the queue is one batch short of full
InitIngest ==
    /\ QueueInit(LOG_QUEUE_MAX_BATCHES - 1)
    /\ \E startAtEnd \in BOOLEAN :
          TailInit(startAtEnd, SmallBudget, <<FileLine(ZuluLine, 1)>>)

NextIngest ==
    \/ WriterAppend(SampleLines, MaxLines)
    \/ Truncate
    \/ Rotate
    \/ ReadLine(Clocks, LineDurations)
    \/ NoDataTick
    \/ EnqueuePut("ingest")
    \/ EnqueueEvict("ingest")

SpecIngest == InitIngest /\ [][NextIngest]_vars

\* The multi-line scenario: the four lines are written one after the other to a
\* file read from its start, and nothing else happens to the file
WriterScript ==
    /\ written < Len(ScenarioLines)
    /\ WriterAppend({FileLine(ScenarioLines[written + 1], eol) : eol \in {1, 2}},
                    Len(ScenarioLines))

InitScenario == QueueInit(0) /\ TailInit(FALSE, MAX_EVENT_BYTES_DEFAULT, <<>>)

NextScenario ==
    \/ WriterScript
    \/ ReadLine(Clocks, LineDurations)
    \/ NoDataTick
    \/ EnqueuePut("ingest")

SpecScenario == InitScenario /\ [][NextScenario]_vars

\* The same with main() running on once the file has gone quiet: the no-data
\* branch is taken again and again (line 256: while True) and a push that was
\* begun goes on
SpecScenarioFair ==
    /\ SpecScenario
    /\ WF_vars(NoDataTick)
    /\ WF_vars(EnqueuePut("ingest"))

\* forwarder.py run as the test runs it: the file read from its start, the
\* four lines written one after the other, with a batch size of 1 (the test's)
\* or BATCH_MAX_LINES
InitForwarder ==
    /\ QueueInit(0)
    /\ \E n \in {1, BATCH_MAX_LINES} :
          TailInitWith([START_AT_END |-> FALSE, MAX_EVENT_BYTES |-> MAX_EVENT_BYTES_DEFAULT,
                        BATCH_MAX_LINES |-> n], <<>>)
    /\ NoCall

NextForwarder ==
    \/ WriterScript
    \/ ForwarderReadLine(Clocks, LineDurations)
    \/ ForwarderNoDataTick
    \/ ForwarderPost(SomeStatuses)

SpecForwarder == InitForwarder /\ [][NextForwarder]_vars

\* redact called on its own, once and again on what it returned, for the lines
\* that carry one credential: key=value, key: value, "key": "value" for every
\* key, and the two Bearer forms
MaxApplications == 2
CredentialValues ==
    {<<"a", "b", "c">>, <<"x", "9", "=">>, <<"p", "-", "1">>}
RedactInputs ==
    {SecretKeys[n] \o <<"=">> \o v : n \in 1..Len(SecretKeys), v \in CredentialValues}
    \cup {SecretKeys[n] \o <<":", " ">> \o v :
             n \in 1..Len(SecretKeys), v \in CredentialValues}
    \cup {<<"\"">> \o SecretKeys[n] \o <<"\"", ":", " ", "\"">> \o v \o <<"\"">> :
             n \in 1..Len(SecretKeys), v \in CredentialValues}
    \cup {<<"B", "e", "a", "r", "e", "r", " ">> \o v : v \in CredentialValues}
    \cup {<<"A", "u", "t", "h", "o", "r", "i", "z", "a", "t", "i", "o", "n", ":", " ",
            "B", "e", "a", "r", "e", "r", " ">> \o v : v \in CredentialValues}

\* the settings and the idle program around a function called on its own
InitIdle ==
    /\ QueueInit(0)
    /\ TailInitWith([START_AT_END |-> TRUE, MAX_EVENT_BYTES |-> MAX_EVENT_BYTES_DEFAULT,
                     BATCH_MAX_LINES |-> BATCH_MAX_LINES], <<>>)

InitRedact ==
    /\ InitIdle
    /\ args \in {<<s>> : s \in RedactInputs}
    /\ ret = <<>>

\* redact(s) for the line given, then for the line the last call returned
CallRedact ==
    /\ Len(ret) < MaxApplications
    /\ ret' = Append(ret, redact(IF ret = <<>> THEN args[1] ELSE ret[Len(ret)]))
    /\ UNCHANGED <<queueVars, pc, enq, ingestVars, senderVars, nextId, ghostVars, fileVars,
                   tailVars, histVars, pushing, received, args>>

NextRedact == CallRedact

SpecRedact == InitRedact /\ [][NextRedact]_vars

\* make_event_id called on its own for two events: server names with and
\* without the separator, two times one millisecond apart, no request id and two
\* request ids, and messages that differ before, at and after character 512
LongMessage(at, c) == [i \in 1..(HEAD_CHARS + 1) |-> IF i = at THEN c ELSE "m"]
EventIdInputs ==
    [server : {SERVER_NAME, <<"a">>, <<"a", "|", "1">>},
     ts : {WallClock, [WallClock EXCEPT !.ms = 1]},
     rid : {<<>>, <<"1">>, <<"1", "7">>},
     msg : {<<"x">>, LongMessage(HEAD_CHARS + 1, "a"), LongMessage(HEAD_CHARS + 1, "b"),
            LongMessage(HEAD_CHARS, "a")}]

InitEventId ==
    /\ InitIdle
    /\ args \in EventIdInputs \X EventIdInputs
    /\ ret = <<>>

\* the id each program gives to each of the two events: log_forwarder.py line
\* 242, forwarder.py lines 190-195
CallEventId ==
    /\ ret = <<>>
    /\ ret' = [i \in 1..2 |->
                 [lf |-> make_event_id(args[i].server, args[i].ts, args[i].msg),
                  fw |-> forwarder_make_event_id(args[i].server, args[i].ts, args[i].msg,
                                                 args[i].rid)]]
    /\ UNCHANGED <<queueVars, pc, enq, ingestVars, senderVars, nextId, ghostVars, fileVars,
                   tailVars, histVars, pushing, received, args>>

NextEventId == CallEventId

SpecEventId == InitEventId /\ [][NextEventId]_vars

\* The whole program: a file that holds two lines is read from its start while
\* the four lines of the scenario are appended to it, main() hands batches to
\* the queue by size and by time, and the Sender delivers, retries and
\* requeues them
WriterLines ==
    /\ written < Len(ScenarioLines)
    /\ WriterAppend({FileLine(ScenarioLines[written + 1], 1)}, Len(ScenarioLines))

InitPipeline ==
    /\ QueueInit(0)
    /\ TailInit(FALSE, MAX_EVENT_BYTES_DEFAULT,
                <<FileLine(ZuluLine, 1), FileLine(ErrorLine, 1)>>)

NextPipeline ==
    \/ WriterLines
    \/ ReadLine(Clocks, LineDurations)
    \/ NoDataTick
    \/ \E t \in Threads : EnqueuePut(t)
    \/ \E t \in Threads : EnqueueEvict(t)
    \/ SenderGet
    \/ SenderCheck
    \/ SenderPost(SomeStatuses, SlowDurations)
    \/ SenderRemaining
    \/ SenderSleep(MidJitters)
    \/ SenderTaskDone

SpecPipeline == InitPipeline /\ [][NextPipeline]_vars

(***************************************************************************)
(* Properties                                                              *)
(***************************************************************************)
QueueIds == {send_q[i].id : i \in 1..Len(send_q)}
Pushes == nextId - 1
Kept == Min(Pushes, LOG_QUEUE_MAX_BATCHES)
SenderHolds == pc["sender"] # "get"
SenderOwns == pc["sender"] \in {"check", "post", "remaining", "sleep", "put", "evict"}

\* C1: after k pushes through enqueue_drop_oldest with no pop in between, the
\* queue holds the min(k, N) batches pushed last, in push order, and the ones
\* evicted are exactly the k - min(k, N) pushed first.
C1_KeepsNewest ==
    pc["ingest"] = "main" =>
        /\ Ids(send_q) = [i \in 1..Kept |-> Pushes - Kept + i]
        /\ evicted = 1..(Pushes - Kept)

\* C1 witness: N+1 pushes are done, the first batch is gone and N remain
C1_Witness ==
    /\ pc["ingest"] = "main"
    /\ Pushes = LOG_QUEUE_MAX_BATCHES + 1
    /\ evicted = {1}
    /\ Len(send_q) = LOG_QUEUE_MAX_BATCHES

\* C2: with the ingest side and the Sender both pushing and the Sender popping,
\* the queue never holds more than its capacity, no batch is in the queue (or in
\* a thread's hands and in the queue) twice, task_done never outruns put, and a
\* thread inside a push or ready to pop can always take its step.
C2_BoundedNoDuplicate ==
    /\ Len(send_q) <= LOG_QUEUE_MAX_BATCHES
    /\ Cardinality(QueueIds) = Len(send_q)
    /\ pc["ingest"] # "main" => enq["ingest"].id \notin QueueIds
    /\ SenderOwns => sbatch.id \notin QueueIds
    /\ (pc["ingest"] # "main" /\ SenderHolds) => enq["ingest"].id # sbatch.id
    /\ unfinished = Len(send_q) + (IF SenderHolds THEN 1 ELSE 0)
    /\ \A t \in Threads :
          pc[t] \in {"put", "evict"} => ENABLED (EnqueuePut(t) \/ EnqueueEvict(t))
    /\ (pc["sender"] = "get" /\ send_q # <<>>) => ENABLED SenderGet

\* C2 witness: the queue is full while both threads stand at their put
C2_Witness ==
    /\ Len(send_q) = LOG_QUEUE_MAX_BATCHES
    /\ pc["ingest"] = "put"
    /\ pc["sender"] = "put"

\* C3: once the endpoint has answered a batch with a 4xx other than 429, the
\* Sender only finishes the pop: the batch is never attempted again and is
\* neither in the queue nor on its way back into it.
C3_PermanentDropped ==
    \A id \in rejected :
        /\ id \notin QueueIds
        /\ \A t \in Threads : enq[t].id # id
        /\ sbatch.id = id =>
              /\ pc["sender"] = "task_done"
              /\ lastStatus \in (400..499) \ {429}

\* C3 witness: a 404 on the first attempt, and the Sender is back at its pop
\* with nothing left to send
C3_Witness ==
    /\ 1 \in rejected
    /\ lastStatus = 404
    /\ attempts = 1
    /\ pc["sender"] = "get"
    /\ send_q = <<>>

JustDelivered == pc["sender"] = "task_done" /\ lastStatus \in 200..299

\* C4 as claimed: a delivery after k retryable outcomes took k+1 attempts, every
\* retry's backoff is larger than the one before, and the batch is not requeued.
C4_BackoffIncreases ==
    JustDelivered =>
        /\ attempts = fails + 1
        /\ Len(sleeps) = fails
        /\ \A i \in 1..(Len(sleeps) - 1) : sleeps[i] < sleeps[i + 1]
        /\ enq["sender"] = NoBatch
        /\ sbatch.id \notin QueueIds

\* C4 amended: a delivery after k retryable outcomes took k+1 attempts, the
\* first retry's backoff is BACKOFF_INITIAL_MS and each later one is twice the
\* one before, capped at BACKOFF_MAX_MS, and the batch is not requeued.
C4_BackoffDoublesToCap ==
    JustDelivered =>
        /\ attempts = fails + 1
        /\ Len(sleeps) = fails
        /\ fails > 0 => sleeps[1] = BACKOFF_INITIAL_MS
        /\ \A i \in 1..(Len(sleeps) - 1) :
              sleeps[i + 1] = Min(2 * sleeps[i], BACKOFF_MAX_MS)
        /\ enq["sender"] = NoBatch
        /\ sbatch.id \notin QueueIds

\* C4 witness: three retryable outcomes, then 200 on the fourth attempt
C4_Witness ==
    /\ JustDelivered
    /\ lastStatus = 200
    /\ fails = 3
    /\ attempts = 4
    /\ sleeps = <<500, 1000, 2000>>
    /\ sbatch.requeues = 0

Exhausting ==
    \/ pc["sender"] = "check" /\ elapsed >= DROP_AFTER_MS
    \/ pc["sender"] = "remaining" /\ DROP_AFTER_MS - elapsed <= 0

C6_RequeuedAtMostOnce ==
    /\ \A i \in 1..Len(send_q) : send_q[i].requeues <= 1
    /\ sbatch.requeues <= 1
    /\ enq["sender"].requeues <= 1


(***************************************************************************)
(* Properties of the tailer and the assembler                              *)
(***************************************************************************)
\* C7: when a no-data tick has detected a truncation or a rotation and opened
\* the file again, reading goes on from the start of the file (the tracked
\* offset is the start position, the next line is the first line of the
\* file), whatever START_AT_END says.
C7_ReopenReadsFromStart ==
    lastStep = "reopen" => f.pos = 0 /\ current_offset = 0

\* C8: an event that was pending when a truncation or rotation was detected is
\* in the queue before a line of the reopened file is read, and it comes
\* before every event built from lines read after the reopen.  (The batch
\* holds the last Len(batch) events finalized, the ones still to be queued.)
C8_PendingFlushedBeforeNextLine ==
    \A k \in forced :
       /\ k > Len(finalized) - Len(batch) => Len(fed) = fedAtReopen
       /\ \A n \in (k + 1)..Len(finalized) : finalized[n].from > finalized[k].to

RECURSIVE JoinLines(_, _, _)
\* "\n".join of the lines i..j of the history fd
JoinLines(fd, i, j) ==
    IF i = j THEN fd[i].line ELSE JoinLines(fd, i, j - 1) \o <<"\n">> \o fd[j].line

\* the groups read so far that a new start line has closed: <<i, j>> says that
\* line i and line j are start lines and no line between them is one
StartLines == {i \in 1..Len(fed) : LOG_START_RE(fed[i].line)}
GroupsOf(S) ==
    {g \in S \X S : g[1] < g[2] /\ \A n \in (g[1] + 1)..(g[2] - 1) : n \notin S}
Groups == GroupsOf(StartLines)

\* the events that hold a line of the group g
EventsOf(g) ==
    {k \in 1..Len(finalized) : finalized[k].from < g[2] /\ finalized[k].to >= g[1]}

\* one event for the group g: all its lines, joined by newlines, with the
\* timestamp and the level of its start line
EmittedOnce(g) ==
    \A ks \in {EventsOf(g)} :
       /\ Cardinality(ks) = 1
       /\ \A k \in ks :
          \A meta \in {extract_metadata(fed[g[1]].line, fed[g[1]].now)} :
             /\ finalized[k].from = g[1] /\ finalized[k].to = g[2] - 1
             /\ finalized[k].ev.message = JoinLines(fed, g[1], g[2] - 1)
             /\ finalized[k].ev.ts = meta.ts
             /\ finalized[k].ev.level = meta.level

\* no reopen between two lines of the group, and the joined message within
\* MAX_EVENT_BYTES
Unbroken(g) ==
    /\ \A n \in (g[1] + 1)..(g[2] - 1) : ~fed[n].cut
    /\ Utf8Len(JoinLines(fed, g[1], g[2] - 1)) <= cfg.MAX_EVENT_BYTES

\* C9 as claimed: every start line followed by continuation lines and then a
\* new start line gives exactly one event, whose message is the newline-join
\* of the lines and whose timestamp and level are the start line's.
C9_OneEventPerGroup == \A g \in Groups : EmittedOnce(g)

\* C9 as amended: the same for every group that no reopen splits and whose
\* joined message is at most MAX_EVENT_BYTES bytes long.
C9_OneEventPerUnbrokenGroup == \A g \in Groups : Unbroken(g) => EmittedOnce(g)

\* C9 witness: a start line with at least one continuation line, unbroken and
\* within MAX_EVENT_BYTES, closed by the next start line and finalized
C9_Witness ==
    \E g \in Groups :
       /\ g[2] - g[1] >= 2
       /\ Unbroken(g)
       /\ \E k \in 1..Len(finalized) : finalized[k].from = g[1] /\ finalized[k].to > g[1]

\* C10: once the four lines of the scenario are read and the file has gone
\* quiet, there are exactly two events: an ERROR event with the exception line
\* and the stack frame in its message, and an INFO event made of the last line.
C10_TwoEvents ==
    (Len(fed) = Len(ScenarioLines) /\ lastStep = "tick" /\ pc["ingest"] = "main") =>
        /\ Len(finalized) = 2
        /\ finalized[1].ev.level = "ERROR"
        /\ Contains(finalized[1].ev.message, ScenarioException)
        /\ Contains(finalized[1].ev.message, ScenarioFrame)
        /\ finalized[2].ev.level = "INFO"
        /\ finalized[2].ev.message = ScenarioInfo

\* C11: in forwarder.py the first event the endpoint receives is the ERROR
\* event, and its message holds the exception line and the stack frame that
\* followed the header line.
C11_FirstEventMerged ==
    received # <<>> =>
        /\ received[1].level = "ERROR"
        /\ Contains(received[1].message, ScenarioException)
        /\ Contains(received[1].message, ScenarioFrame)

\* C12: a batch handed to delivery, whether pushed to the queue or passed to
\* send_with_retry by forwarder.py, has at most the configured number of events.
C12_BatchWithinMax ==
    /\ pc["ingest"] = "put" => Len(enq["ingest"].events) <= cfg.BATCH_MAX_LINES
    /\ pc["ingest"] = "send" => Len(batch) <= cfg.BATCH_MAX_LINES
    /\ \A i \in 1..Len(send_q) : Len(send_q[i].events) <= cfg.BATCH_MAX_LINES

\* C13: whenever enqueue_drop_oldest evicts a batch, the batches that stay in
\* the queue and the batch being inserted were all created after the evicted
\* one (ids are given in the order of creation), also when the Sender requeues.
C13_EvictsAgeOldest ==
    [][\A t \in Threads :
          (pc[t] = "evict" /\ pc'[t] = "put" /\ send_q' # send_q) =>
              /\ \A i \in 1..Len(send_q') : send_q'[i].id > get_item(send_q).id
              /\ enq[t].id > get_item(send_q).id]_vars

\* C14: while the Sender does no queue operation (it is stalled inside a
\* delivery), a push of main() evicts at most one batch and then finds room for
\* its insert; and no step of main() is or awaits a requests.post.
C14_PushNeverWaits ==
    /\ [](pushing.alone =>
             /\ pushing.evictions <= 1
             /\ (pushing.evictions = 1 /\ pc["ingest"] = "put") => ~Full(send_q))
    /\ [](pc["ingest"] \in {"main", "put", "evict"})
    /\ [][attempts' # attempts =>
             /\ pc'["ingest"] = pc["ingest"]
             /\ enq'["ingest"] = enq["ingest"]
             /\ batch' = batch]_vars

\* C14 witness: the Sender is inside requests.post and main(), having evicted
\* one batch without the Sender touching the queue, is about to insert
C14_Witness ==
    /\ pc["sender"] = "post"
    /\ sbatch # NoBatch
    /\ pc["ingest"] = "put"
    /\ pushing = [evictions |-> 1, alone |-> TRUE]

\* C15: a finalized event whose merged message is longer than MAX_EVENT_BYTES
\* bytes carries a prefix of that message followed by the truncation marker,
\* at most MAX_EVENT_BYTES plus the marker's length in bytes; a message within
\* the budget is emitted as it is.
C15_TruncatedWithinBudget ==
    \A k \in 1..Len(finalized) :
    \A orig \in {JoinLines(fed, finalized[k].from, finalized[k].to)} :
    \A msg \in {finalized[k].ev.message} :
       IF Utf8Len(orig) > cfg.MAX_EVENT_BYTES
       THEN /\ \E n \in 0..Len(orig) : msg = Take(orig, n) \o TRUNCATED_MARK
            /\ Utf8Len(msg) <= cfg.MAX_EVENT_BYTES + Utf8Len(TRUNCATED_MARK)
       ELSE msg = orig

\* C16: redact applied to its own result changes nothing:
\* redact(redact(s)) = redact(s).
C16_RedactIdempotent == Len(ret) >= 2 => ret[2] = ret[1]

\* the components of the two events that differ: server name, timestamp,
\* request id, first 512 characters of the message
Differing ==
    {c \in {"server", "ts", "rid", "head"} :
        CASE c = "server" -> args[1].server # args[2].server
          [] c = "ts" -> args[1].ts # args[2].ts
          [] c = "rid" -> args[1].rid # args[2].rid
          [] OTHER -> Take(args[1].msg, HEAD_CHARS) # Take(args[2].msg, HEAD_CHARS)}

\* C17: two events that agree on server name, timestamp, request id and the
\* first 512 characters of the message get the same id, and two that differ in
\* exactly one of them get different hashed texts.  log_forwarder.py has no
\* request id: its events agree on it always.
C17_EventIdFunctionOfFour ==
    ret # <<>> =>
        /\ Differing = {} => ret[1] = ret[2]
        /\ Cardinality(Differing) = 1 => ret[1].fw # ret[2].fw
        /\ (Cardinality(Differing) = 1 /\ "rid" \notin Differing) => ret[1].lf # ret[2].lf
        /\ Differing \subseteq {"rid"} => ret[1].lf = ret[2].lf

\* C17 witness: the ids of two events whose messages differ, but only after
\* character 512, and of two events that differ in the request id alone
C17_Witness ==
    /\ ret # <<>>
    /\ \/ Differing = {} /\ args[1].msg # args[2].msg
       \/ Differing = {"rid"}

\* C18: when main() has processed a line and goes on to the next readline,
\* it is not leaving behind a batch that is not empty and as old as the flush
\* interval: such a batch was handed to the queue right after the line.
C18_TimeFlushAfterLine ==
    (lastStep = "line" /\ pc["ingest"] = "main") =>
        ~(batch # <<>> /\ sinceFlush >= FLUSH_INTERVAL_MS)

\* C19: a call of send_with_retry ends; it ends delivered only on a 2xx,
\* rejected only on a 4xx other than 429, exhausted only once the 60 s have
\* passed; and no requests.post starts at or after the deadline.
C19_SendTerminates ==
    /\ (pc["sender"] = "check") ~> (pc["sender"] \in {"task_done", "put"})
    /\ [][/\ attempts' = attempts + 1 => elapsed < DROP_AFTER_MS
          /\ (pc["sender"] = "post" /\ pc'["sender"] = "task_done") =>
                 IsSuccess(lastStatus') # IsPermanent(lastStatus')
          /\ (pc["sender"] \in {"check", "remaining"} /\ pc'["sender"] = "put") =>
                 /\ elapsed >= DROP_AFTER_MS
                 /\ ~IsSuccess(lastStatus) /\ ~IsPermanent(lastStatus)]_vars

\* C19 witness: a call that has ended exhausted after several attempts, the
\* last of which began before the deadline and ended after it
C19_Witness ==
    /\ pc["sender"] = "put"
    /\ attempts >= 2
    /\ elapsed > DROP_AFTER_MS

\* C20: the offset main() tracks is the byte position reached in the file, the
\* start offset plus the bytes of the lines read since the file was opened, so
\* that the file is smaller than the offset exactly when it is shorter than
\* what was read.
C20_OffsetIsBytePosition ==
    /\ current_offset = f.pos
    /\ \A size \in {FileSize(disk[f.ino])} : (size < current_offset) <=> (size < f.pos)

(***************************************************************************)
(* Properties of the pipeline as a whole                                   *)
(***************************************************************************)
\* the messages of the events made so far, in the order they were opened: the
\* finalized ones and the pending one
Messages ==
    [k \in 1..Len(finalized) |-> finalized[k].ev.message]
        \o (IF pending # <<>> THEN <<pending[1].message>> ELSE <<>>)

RECURSIVE JoinMessages(_)
\* "\n".join of the messages ms
JoinMessages(ms) ==
    IF Len(ms) = 1 THEN ms[1]
    ELSE JoinMessages(SubSeq(ms, 1, Len(ms) - 1)) \o <<"\n">> \o ms[Len(ms)]

\* a line that is not a start line is read while nothing is pending: it opens
\* an event of level INFO, stamped with the time of reading, made of that line
SyntheticOpened ==
    [][(Len(fed') = Len(fed) + 1 /\ pending = <<>>
          /\ ~LOG_START_RE(fed'[Len(fed')].line)) =>
           pending' = <<[ts |-> fed'[Len(fed')].now, level |-> "INFO",
                         message |-> fed'[Len(fed')].line]>>]_vars

\* the lines fed[from..to] of the events tile the lines read, in the order read
LinesTiled ==
    /\ \A k \in 1..Len(finalized) :
          /\ finalized[k].from = (IF k = 1 THEN 1 ELSE finalized[k - 1].to + 1)
          /\ finalized[k].from <= finalized[k].to
    /\ \A last \in {IF finalized = <<>> THEN 0 ELSE finalized[Len(finalized)].to} :
          IF pending # <<>>
          THEN /\ pendingFrom = last + 1
               /\ pendingFrom <= Len(fed)
               /\ pending[1].message = JoinLines(fed, pendingFrom, Len(fed))
          ELSE last = Len(fed)

\* C21 as claimed: the messages of the finalized events and of the pending
\* event, taken in order, are the lines read, each once and in the order read;
\* and a line that is not a start line and finds nothing pending opens an INFO
\* event made of that line.
C21_EveryLineInOneEvent ==
    /\ [](fed # <<>> => JoinMessages(Messages) = JoinLines(fed, 1, Len(fed)))
    /\ SyntheticOpened

\* C21 as amended: every line read belongs to exactly one event, the events
\* tile the lines in the order read, the pending event and every finalized
\* event within MAX_EVENT_BYTES hold their lines joined by newlines, and a
\* finalized event over MAX_EVENT_BYTES holds a prefix of its joined lines and
\* the truncation marker; the synthetic event as claimed.
C21_EveryLineInOneEventOrCut ==
    /\ [](/\ LinesTiled
          /\ \A k \in 1..Len(finalized) :
             \A orig \in {JoinLines(fed, finalized[k].from, finalized[k].to)} :
                IF Utf8Len(orig) <= cfg.MAX_EVENT_BYTES
                THEN finalized[k].ev.message = orig
                ELSE \E n \in 0..Len(orig) :
                        finalized[k].ev.message = Take(orig, n) \o TRUNCATED_MARK)
    /\ SyntheticOpened

\* C21 witness: after a reopen has finalized the first event, two lines that
\* are not start lines were read: the first opened a synthetic INFO event, the
\* second joined it
C21_Witness ==
    /\ finalized # <<>>
    /\ pending # <<>>
    /\ pendingFrom < Len(fed)
    /\ ~LOG_START_RE(fed[pendingFrom].line)
    /\ pending[1].level = "INFO"

\* the batches handed over and not yet gone: in the queue, in the hands of the
\* Sender, or the argument of a running enqueue_drop_oldest call
Held ==
    {send_q[i] : i \in 1..Len(send_q)}
        \cup (IF SenderHolds THEN {sbatch} ELSE {})
        \cup {enq[t] : t \in {u \in Threads : pc[u] \in {"put", "evict"}}}

\* C22: the batch flush_batch hands over holds the events of the in-progress
\* batch of that moment; it is a list of its own, not the list main() goes on
\* appending to and clearing; and whatever main(), the queue and the Sender do
\* afterwards, every batch that is queued, in flight or on its way (back) into
\* the queue reads the same as before the step.
C22_QueueOwnsCopy ==
    /\ [](\A b \in Held : b.list # MainList)
    /\ [][/\ (pc["ingest"] = "main" /\ pc'["ingest"] = "put") =>
                /\ batch' # <<>>
                /\ Contents(enq'["ingest"], batch') = batch'
          /\ \A b \in Held : \A c \in Held' :
                c.id = b.id => Contents(c, batch') = Contents(b, batch)]_vars

\* C22 witness: one batch is back in the queue after a requeue, another is
\* being posted, and main() has cleared its batch and appended a later event
C22_Witness ==
    /\ batch # <<>>
    /\ pc["sender"] = "post"
    /\ sbatch.events # batch
    /\ \E i \in 1..Len(send_q) : send_q[i].requeues >= 1 /\ send_q[i].events # batch

\* the batches flush_batch has made, the ones still in the program (queued,
\* being pushed, or popped and not yet answered for good) and the ones gone
Created == 1..(nextId - 1)
InSystem ==
    QueueIds
        \cup {enq[t].id : t \in {u \in Threads : pc[u] \in {"put", "evict"}}}
        \cup (IF SenderOwns THEN {sbatch.id} ELSE {})
Gone == delivered \cup rejected \cup evicted

\* the ways the pop of sbatch can have ended in the step just taken
Outcomes ==
    {o \in {"delivered", "rejected", "requeued"} :
        CASE o = "delivered" -> sbatch.id \in delivered'
          [] o = "rejected" -> sbatch.id \in rejected'
          [] OTHER -> send_q' = Append(send_q, [sbatch EXCEPT !.requeues = @ + 1])}

C24_PendingEventuallyQueued ==
    (Len(fed) = Len(ScenarioLines) /\ pending # <<>>)
        ~> (pending = <<>> /\ batch = <<>> /\ pc["ingest"] = "main")

=============================================================================
